---- MODULE Spec2Model ----
(***************************************************************************)
(* Model of RelayNode's c++/utils.cpp: the varint codec (move_forward,    *)
(* read_varint, varint), the blocking transfer loops (read_all,           *)
(* send_all), the message framer (prepare_message) and the double-SHA256  *)
(* primitive (double_sha256, double_sha256_two_32_inputs).                *)
(*                                                                         *)
(* Number representation.  TLC's integers are 32-bit signed, exactly a C  *)
(* int.  A uint64_t / size_t is kept at full width as four 16-bit limbs, *)
(* least significant first: <<w0, w1, w2, w3>> is                         *)
(* w0 + 2^16*w1 + 2^32*w2 + 2^48*w3.  A uint32_t hash word is <<hi, lo>>. *)
(* Iterators and pointers are offsets from the start of their buffer;     *)
(* buf[k+1] is the byte at offset k.                                      *)
(***************************************************************************)
EXTENDS Integers, Sequences, FiniteSets, TLC

VARIABLES
    \* ---- varint codec: the caller's buffer, its cursor and the last call
    buf,        \* std::vector<unsigned char> the cursor reads from
    it,         \* the caller's const_iterator (offset into buf), passed by reference
    it0,        \* the cursor's value when the last read_varint was entered
    vin,        \* the 64-bit value the caller last handed to varint()
    fresh,      \* history: buf is the result of varint(vin), read (if at all) once, from its first byte
    vret,       \* value returned by the last read_varint
    vstatus,    \* "none" | "encoded" | "ok" | "read_exception" | "abort"
    \* ---- read_all / send_all
    fn,         \* "none" | "read_all" | "send_all"
    pc,         \* "idle" | "entry" | "loop" | "exit" | "done"
    nbyte,      \* the nbyte argument
    total,      \* size_t total
    count,      \* ssize_t count
    results,    \* history: what each read()/send() call of this invocation returned
    ioret,      \* the value returned
    \* ---- double-SHA256
    SHA256_defined, \* the build: TRUE when compiled with -DSHA256 (raw compression routine)
    hkind,      \* "general" (double_sha256) | "two32" (double_sha256_two_32_inputs)
    input,      \* first input buffer
    input2,     \* second input buffer (two32 only)
    fed,        \* history: the buffers handed to the SHA256 routine, in call order
    res,        \* the 32-byte result buffer
    hstatus,    \* "none" | "done" | "assert_failed"
    \* ---- prepare_message
    command,    \* the C string passed as command (its bytes, terminator not included)
    mem,        \* the caller's headerAndData buffer: 24 header bytes, then the payload
    mem0,       \* history: mem when prepare_message was entered
    datalen,    \* the datalen argument (size_t)
    spill,      \* history: bytes written past the end of the caller's buffer
    fstatus     \* "none" | "returned" | "abort" | "assert_failed"

varsV  == <<buf, it, it0, vin, fresh, vret, vstatus>>
varsIO == <<fn, pc, nbyte, total, count, results, ioret>>
varsH  == <<SHA256_defined, hkind, input, input2, fed, res, hstatus>>
varsF  == <<command, mem, mem0, datalen, spill, fstatus>>
vars   == <<varsV, varsIO, varsH, varsF>>

(***************************************************************************)
(* Bounds of the model.                                                    *)
(***************************************************************************)
MaxLead == 2        \* bytes in the buffer before the cursor
MaxTail == 9        \* bytes in the buffer after the prefix byte
MaxNbyte == 5       \* largest nbyte handed to read_all / send_all
MaxInput == 130     \* longest input handed to double_sha256
MaxCommand == 21    \* longest command name handed to prepare_message
MaxPayload == 6     \* longest short payload handed to prepare_message

(***************************************************************************)
(* Bytes and fixed-width integers.                                         *)
(***************************************************************************)
LimbSamples == {0, 1, 252, 253, 32767, 32768, 65535}

Zero64 == <<0, 0, 0, 0>>
U64OfInt(n) == <<n % 65536, (n \div 65536) % 65536, 0, 0>>   \* 0 <= n < 2^31

\* Conversion of a C int to uint64_t: value modulo 2^64, i.e. sign extension.
IntToU64(x) ==
    LET ext == IF x < 0 THEN 65535 ELSE 0
    IN  <<x % 65536, (x \div 65536) % 65536, ext, ext>>

\* Conversion of a uint64_t argument to a uint32_t parameter: value modulo 2^32.
ToU32(v) == <<v[1], v[2], 0, 0>>

\* (int)b << n for an unsigned char b promoted to int, n in {8, 16, 24}.
\* b << 24 with b >= 0x80 lands on the sign bit: the int result is negative.
ShlInt(b, n) ==
    IF n = 24 /\ b >= 128 THEN (b - 256) * 16777216 ELSE b * (2 ^ n)

\* a | b for ints whose set bits are disjoint (every use below).
BitOr(a, b) == a + b

\* U64 comparisons against 32-bit literals.
LessThan0xfd(v)  == v[4] = 0 /\ v[3] = 0 /\ v[2] = 0 /\ v[1] < 253
AtMost0xffff(v)  == v[4] = 0 /\ v[3] = 0 /\ v[2] = 0
AtMost0xffffffff(v) == v[4] = 0 /\ v[3] = 0

\* htole16/32/64 followed by the byte-wise copy: the little-endian bytes.
LimbBytes(w) == <<w % 256, w \div 256>>
LE16(v) == LimbBytes(v[1])
LE32(v) == LimbBytes(v[1]) \o LimbBytes(v[2])
LE64(v) == LimbBytes(v[1]) \o LimbBytes(v[2]) \o LimbBytes(v[3]) \o LimbBytes(v[4])

(***************************************************************************)
(* Varint processing.                                                      *)
(***************************************************************************)
\* *(p) for an iterator at offset p.
Deref(b, p) == b[p + 1]

\* move_forward(it, i, end).  `end - i` with i larger than the whole buffer
\* is an iterator before begin(): undefined behaviour.  With pointer-backed
\* iterators over allocated storage the address is computed and compared
\* (checked = FALSE).  The process stops instead (checked = TRUE) in a
\* checked-iterator build, and for an empty vector that never allocated:
\* begin() is the null pointer, end - 1 wraps to the top of the address
\* space, the test is false and *(it-1) reads address 0.
move_forward(p, i, end, checked) ==
    IF end - i < 0 /\ checked THEN [status |-> "abort", it |-> p]
    ELSE IF p > end - i THEN [status |-> "read_exception", it |-> p]
    ELSE [status |-> "ok", it |-> p + i]

read_varint(b, p, checked) ==
    LET end == Len(b)
        m1  == move_forward(p, 1, end, checked)
    IN  IF m1.status # "ok" THEN [status |-> m1.status, it |-> m1.it, value |-> Zero64]
        ELSE
        LET first == Deref(b, m1.it - 1)
            m2 == move_forward(m1.it, 2, end, checked)
            m4 == move_forward(m1.it, 4, end, checked)
            m8 == move_forward(m1.it, 8, end, checked)
            failed(m) == [status |-> m.status, it |-> m.it, value |-> Zero64]
        IN  IF first < 253 THEN
                [status |-> "ok", it |-> m1.it, value |-> U64OfInt(first)]
            ELSE IF first = 253 THEN
                IF m2.status # "ok" THEN failed(m2)
                ELSE [status |-> "ok", it |-> m2.it,
                      value |-> IntToU64(BitOr(ShlInt(Deref(b, m2.it - 1), 8),
                                               Deref(b, m2.it - 2)))]
            ELSE IF first = 254 THEN
                IF m4.status # "ok" THEN failed(m4)
                ELSE [status |-> "ok", it |-> m4.it,
                      value |-> IntToU64(
                          BitOr(BitOr(BitOr(ShlInt(Deref(b, m4.it - 1), 24),
                                            ShlInt(Deref(b, m4.it - 2), 16)),
                                      ShlInt(Deref(b, m4.it - 3), 8)),
                                Deref(b, m4.it - 4)))]
            ELSE
                IF m8.status # "ok" THEN failed(m8)
                ELSE [status |-> "ok", it |-> m8.it,
                      value |-> << Deref(b, m8.it - 8) + 256 * Deref(b, m8.it - 7),
                                   Deref(b, m8.it - 6) + 256 * Deref(b, m8.it - 5),
                                   Deref(b, m8.it - 4) + 256 * Deref(b, m8.it - 3),
                                   Deref(b, m8.it - 2) + 256 * Deref(b, m8.it - 1) >>]

\* std::vector<unsigned char> varint(uint32_t size): the parameter is 32 bits
\* wide, so the caller's value is reduced modulo 2^32 on entry.
varint(v) ==
    LET size == ToU32(v)
    IN  IF LessThan0xfd(size) THEN <<size[1] % 256>>
        ELSE IF AtMost0xffff(size) THEN <<253>> \o LE16(size)
        ELSE IF AtMost0xffffffff(size) THEN <<254>> \o LE32(size)
        ELSE <<255>> \o LE64(size)

\* Values a caller may pass to varint(), over all four width ranges.
Values == { <<a, b, c, d>> : a \in LimbSamples, b \in {0, 1, 32767, 32768, 65535},
                             c \in {0, 1}, d \in {0, 65535} }

\* Buffers a caller may hold: lead bytes, a prefix byte, then a tail.
Buffers ==
    { [i \in 1..(l + 1 + k) |->
          IF i <= l THEN 1 ELSE IF i = l + 1 THEN pre ELSE IF i = l + 1 + k THEN hi ELSE lo] :
      l \in 0..MaxLead, k \in 0..MaxTail, pre \in {0, 252, 253, 254, 255},
      lo \in {1, 255}, hi \in {0, 1, 127, 128, 255} }
    \cup { <<>> }

\* The caller either holds a value to encode (and an empty buffer) or holds
\* received bytes with its cursor somewhere in the first MaxLead positions.
InitV ==
    /\ it0 = 0 /\ fresh = FALSE /\ vret = Zero64 /\ vstatus = "none"
    /\ \/ /\ buf = <<>> /\ it = 0 /\ vin \in Values
       \/ /\ buf \in Buffers /\ it \in 0..MaxLead /\ it <= Len(buf) /\ vin = Zero64

\* The caller encodes vin and keeps the bytes, cursor at the first one.
Encode ==
    /\ vstatus = "none" /\ buf = <<>>
    /\ buf' = varint(vin) /\ it' = 0 /\ it0' = 0 /\ fresh' = TRUE
    /\ vret' = Zero64 /\ vstatus' = "encoded"
    /\ UNCHANGED <<vin>>
    /\ UNCHANGED <<varsIO, varsH, varsF>>

\* The caller decodes at its cursor.
Decode ==
    /\ vstatus \in {"none", "encoded", "ok"}
    /\ \E checked \in BOOLEAN :
        LET r == read_varint(buf, it, checked)
        IN  /\ it0' = it /\ it' = r.it /\ vret' = r.value /\ vstatus' = r.status
            /\ fresh' = (vstatus = "encoded")
    /\ UNCHANGED <<buf, vin>>
    /\ UNCHANGED <<varsIO, varsH, varsF>>

IdleIO ==
    /\ fn = "none" /\ pc = "idle" /\ nbyte = 0 /\ total = 0 /\ count = 0
    /\ results = <<>> /\ ioret = 0

NextV == Encode \/ Decode

(***************************************************************************)
(* Network utils: read_all and send_all.                                   *)
(***************************************************************************)
\* What one read()/send() asked for k bytes may return: an error (-1), end
\* of file / nothing sent (0), or a count between 1 and k.
SyscallResults(k) == {-1, 0} \cup (1..k)

\* A faulty variant of ReturnValue: the bytes moved so far are reported
\* even when the last call failed.
ReturnValue_ReportsPartial(c, t) == t

\* The tail both functions share: if (count <= 0) return count; else return total;
ReturnValue(c, t) == IF c <= 0 THEN c ELSE t

IdleV ==
    /\ buf = <<>> /\ it = 0 /\ it0 = 0 /\ vin = Zero64 /\ fresh = FALSE
    /\ vret = Zero64 /\ vstatus = "none"

InitIO ==
    /\ fn \in {"read_all", "send_all"} /\ nbyte \in 0..MaxNbyte
    /\ pc = "entry" /\ total = 0 /\ count = 0 /\ results = <<>> /\ ioret = 0

\* read_all, lines 86-90: the nbyte <= 0 early return, then the locals.
ReadAllEnter ==
    /\ fn = "read_all" /\ pc = "entry"
    /\ IF nbyte <= 0
          THEN pc' = "done" /\ ioret' = 0 /\ UNCHANGED <<total, count>>
          ELSE pc' = "loop" /\ count' = 0 /\ total' = 0 /\ UNCHANGED ioret
    /\ UNCHANGED <<fn, nbyte, results>>
    /\ UNCHANGED <<varsV, varsH, varsF>>

\* send_all, lines 100-101: no early return.
SendAllEnter ==
    /\ fn = "send_all" /\ pc = "entry"
    /\ pc' = "loop" /\ count' = 0 /\ total' = 0
    /\ UNCHANGED <<fn, nbyte, results, ioret>>
    /\ UNCHANGED <<varsV, varsH, varsF>>

\* One evaluation of the loop condition
\*   total < nbyte && (count = read/send(fd, buf + total, nbyte - total)) > 0
\* and, when it holds, the body total += count.
LoopTest ==
    /\ pc = "loop"
    /\ IF total < nbyte
          THEN \E r \in SyscallResults(nbyte - total) :
                  /\ count' = r
                  /\ results' = Append(results, r)
                  /\ IF r > 0 THEN total' = total + r /\ pc' = "loop"
                              ELSE total' = total /\ pc' = "exit"
          ELSE pc' = "exit" /\ UNCHANGED <<count, total, results>>
    /\ UNCHANGED <<fn, nbyte, ioret>>
    /\ UNCHANGED <<varsV, varsH, varsF>>

\* if (count <= 0) return count; else return total;
Return ==
    /\ pc = "exit"
    /\ ioret' = ReturnValue(count, total) /\ pc' = "done"
    /\ UNCHANGED <<fn, nbyte, total, count, results>>
    /\ UNCHANGED <<varsV, varsH, varsF>>

NextIO == ReadAllEnter \/ SendAllEnter \/ LoopTest \/ Return

(***************************************************************************)
(* Double-SHA256.                                                          *)
(*                                                                         *)
(* A buffer is a sequence of bytes.  A buffer too long to write out holds  *)
(* the entry ZeroRun, which stands for 2^32 consecutive zero bytes.       *)
(***************************************************************************)
ZeroRun == 0 - 1
Zeros(n) == [i \in 1..n |-> 0]

CountRuns(b) == Cardinality({i \in DOMAIN b : b[i] = ZeroRun})
Concrete(b) == SelectSeq(b, LAMBDA x : x # ZeroRun)

\* The buffer's length in bytes, as a size_t.
SizeOf(b) ==
    LET n == Len(b) - CountRuns(b)
    IN  <<n % 65536, n \div 65536, CountRuns(b), 0>>

\* x % 64 and x << 3 on a uint64_t.
Mod64(v) == v[1] % 64
Shl3(v) ==
    LET c0 == v[1] * 8
        c1 == v[2] * 8 + c0 \div 65536
        c2 == v[3] * 8 + c1 \div 65536
        c3 == v[4] * 8 + c2 \div 65536
    IN  <<c0 % 65536, c1 % 65536, c2 % 65536, c3 % 65536>>

\* WriteBE64(ptr, x): ptr[0] = x >> 56, ..., ptr[7] = x.
WriteBE64(x) ==
    << x[4] \div 256, x[4] % 256, x[3] \div 256, x[3] % 256,
       x[2] \div 256, x[2] % 256, x[1] \div 256, x[1] % 256 >>

\* WriteBE32(ptr, x): ptr[0] = x >> 24, ..., ptr[3] = x, for x = <<hi, lo>>.
WriteBE32(x) == << x[1] \div 256, x[1] % 256, x[2] \div 256, x[2] % 256 >>

sha256_init ==
    << <<27145, 58983>>, <<47975, 44677>>, <<15470, 62322>>, <<42319, 62778>>,
       <<20750, 21119>>, <<39685, 26764>>, <<8067, 55723>>, <<23520, 52505>> >>

sha256_done(state) ==
    WriteBE32(state[1]) \o WriteBE32(state[2]) \o WriteBE32(state[3]) \o
    WriteBE32(state[4]) \o WriteBE32(state[5]) \o WriteBE32(state[6]) \o
    WriteBE32(state[7]) \o WriteBE32(state[8])

\* extern "C" void SHA256(void *, uint32_t[8], uint64_t): the compression
\* routine lives outside utils.cpp.  It is modelled by a deterministic
\* stand-in that folds the blocks into the state in order and depends on
\* the value and the position of every byte.
RECURSIVE BlockSum(_, _, _, _)
BlockSum(data, base, lo, hi) ==
    IF lo = hi THEN lo * data[base + lo]
    ELSE LET mid == (lo + hi) \div 2
         IN  BlockSum(data, base, lo, mid) + BlockSum(data, base, mid + 1, hi)

MixBlock(state, s) ==
    [j \in 1..8 |->
        << (state[j][1] * 5 + s + state[(j % 8) + 1][2] + j) % 65536,
           (state[j][2] * 3 + (s \div 16) + state[j][1]) % 65536 >>]

RECURSIVE FoldBlocks(_, _, _, _)
FoldBlocks(data, state, k, n) ==
    IF k = n THEN state
    ELSE FoldBlocks(data, MixBlock(state, BlockSum(data, 64 * k, 1, 64)), k + 1, n)

SHA256(data, state) ==
    LET c  == Concrete(data)
        s1 == FoldBlocks(c, state, 0, Len(c) \div 64)
    IN  IF CountRuns(data) = 0 THEN s1 ELSE MixBlock(s1, CountRuns(data))

\* CSHA256 (crypto/sha2.h): Write(...).Finalize(res) is SHA-256 of the
\* bytes written, with the standard padding.
StandardPadding(msg) ==
    LET n == SizeOf(msg)
        k == CHOOSE z \in 0..63 : (Mod64(n) + 1 + z) % 64 = 56
    IN  msg \o <<128>> \o Zeros(k) \o WriteBE64(Shl3(n))

CSHA256(msg) == sha256_done(SHA256(StandardPadding(msg), sha256_init))

\* A faulty variant of pad_count: off by one in the constant.
pad_count_OffByOne(byte_count) == 1 + ((120 - Mod64(byte_count)) % 64)

\* uint64_t pad_count = 1 + ((119 - (byte_count % 64)) % 64);
pad_count(byte_count) == 1 + ((119 - Mod64(byte_count)) % 64)

\* The second pass both raw paths share: the digest is written over
\* data[0..31], then data[32] = 0x80, 23 zero bytes, WriteBE64(32 << 3);
\* these writes cover the whole first block, which is what SHA256(data,
\* state, 1) reads.
SecondBlock(digest) == digest \o <<128>> \o Zeros(32 - 8 - 1) \o WriteBE64(U64OfInt(32 * 8))

\* double_sha256(input, res, byte_count); in is the input buffer, which
\* holds byte_count bytes.  Result: the res buffer, the buffers handed to
\* SHA256, and whether the assert held.
double_sha256(in, byte_count, raw) ==
    IF ~raw THEN
        [res |-> CSHA256(CSHA256(IF byte_count # Zero64 THEN in ELSE <<>>)),
         fed |-> <<>>, ok |-> TRUE]
    ELSE
        LET pad   == pad_count(byte_count)
            data  == in \o <<128>> \o Zeros(pad - 1) \o WriteBE64(Shl3(byte_count))
            ok    == (Mod64(byte_count) + pad + 8) % 64 = 0
            mid   == sha256_done(SHA256(data, sha256_init))
            data2 == SecondBlock(mid)
        IN  [res |-> IF ok THEN sha256_done(SHA256(data2, sha256_init)) ELSE <<>>,
             fed |-> IF ok THEN <<data, data2>> ELSE <<>>,
             ok  |-> ok]

\* A faulty variant of double_sha256_two_32_inputs: the first pass is given
\* the bit length of one input (32 << 3) instead of both (64 << 3).
two_32_inputs_WrongBitLength(in, in2, raw) ==
    IF ~raw THEN
        [res |-> CSHA256(CSHA256(SubSeq(in, 1, 32) \o SubSeq(in2, 1, 32))), fed |-> <<>>]
    ELSE
        LET data  == SubSeq(in, 1, 32) \o SubSeq(in2, 1, 32) \o <<128>>
                     \o Zeros(64 - 8 - 1) \o WriteBE64(U64OfInt(32 * 8))
            mid   == sha256_done(SHA256(data, sha256_init))
            data2 == SecondBlock(mid)
        IN  [res |-> sha256_done(SHA256(data2, sha256_init)), fed |-> <<data, data2>>]

\* double_sha256_two_32_inputs(input, input2, res).
double_sha256_two_32_inputs(in, in2, raw) ==
    IF ~raw THEN
        [res |-> CSHA256(CSHA256(SubSeq(in, 1, 32) \o SubSeq(in2, 1, 32))), fed |-> <<>>]
    ELSE
        LET data  == SubSeq(in, 1, 32) \o SubSeq(in2, 1, 32) \o <<128>>
                     \o Zeros(64 - 8 - 1) \o WriteBE64(U64OfInt(64 * 8))
            mid   == sha256_done(SHA256(data, sha256_init))
            data2 == SecondBlock(mid)
        IN  [res |-> sha256_done(SHA256(data2, sha256_init)), fed |-> <<data, data2>>]

IdleH ==
    /\ hkind = "none" /\ input = <<>> /\ input2 = <<>>
    /\ fed = <<>> /\ res = <<>> /\ hstatus = "none"

\* Inputs: any length up to MaxInput for the general path; two 32-byte
\* digests, each with one byte set apart, for the two-input path.
Fills == {0, 97}
Digests == { [i \in 1..32 |-> IF i = k THEN x ELSE y] :
             k \in {1, 32}, x \in {128, 255}, y \in {0, 7} }

InitH ==
    /\ SHA256_defined \in BOOLEAN
    /\ fed = <<>> /\ res = <<>> /\ hstatus = "none"
    /\ \/ /\ hkind = "general" /\ input2 = <<>>
          /\ \E n \in 0..MaxInput, f \in Fills : input = [i \in 1..n |-> f]
       \/ /\ hkind = "two32" /\ input \in Digests /\ input2 \in Digests

DoubleSha256 ==
    /\ hkind = "general" /\ hstatus = "none"
    /\ LET r == double_sha256(input, SizeOf(input), SHA256_defined)
       IN  /\ res' = r.res /\ fed' = r.fed
           /\ hstatus' = IF r.ok THEN "done" ELSE "assert_failed"
    /\ UNCHANGED <<SHA256_defined, hkind, input, input2>>
    /\ UNCHANGED <<varsV, varsIO, varsF>>

DoubleSha256Two32Inputs ==
    /\ hkind = "two32" /\ hstatus = "none"
    /\ LET r == double_sha256_two_32_inputs(input, input2, SHA256_defined)
       IN  res' = r.res /\ fed' = r.fed /\ hstatus' = "done"
    /\ UNCHANGED <<SHA256_defined, hkind, input, input2>>
    /\ UNCHANGED <<varsV, varsIO, varsF>>

NextH == DoubleSha256 \/ DoubleSha256Two32Inputs

(***************************************************************************)
(* Message framing.  struct bitcoin_msg_header (utils.h) is packed:       *)
(* magic at 0, command[12] at 4, length at 16, checksum[4] at 20.         *)
(***************************************************************************)
MagicOffset == 0
CommandOffset == 4
CommandSize == 12
LengthOffset == 16
ChecksumOffset == 20
ChecksumSize == 4
HeaderSize == 24
BITCOIN_MAGIC == <<249, 190, 180, 217>>

\* m with bytes stored at offset off; a store reaching past the end of m
\* changes only the part inside m.
Poke(m, off, bytes) ==
    [i \in 1..Len(m) |->
        IF i - 1 >= off /\ i - 1 < off + Len(bytes) THEN bytes[i - off] ELSE m[i]]

\* The part of a store at offset off that lands past the end of m.
PastEnd(m, off, bytes) ==
    IF off + Len(bytes) > Len(m) THEN SubSeq(bytes, Len(m) - off + 1, Len(bytes)) ELSE <<>>

\* prepare_message(command, headerAndData, datalen).  strcpy copies the name
\* and its terminating zero.  When that is more than sizeof(header->command)
\* bytes the copy overruns the array: undefined behaviour.  A build with
\* object-size checking (fortified = TRUE) stops the process in strcpy; a
\* plain build stores the bytes into what follows the field.
prepare_message(cmd, m, len, fortified, raw) ==
    LET m1  == Poke(m, CommandOffset, Zeros(CommandSize))
        str == cmd \o <<0>>
    IN  IF Len(str) > CommandSize /\ fortified
        THEN [status |-> "abort", mem |-> m1, spill |-> <<>>]
        ELSE
        LET m2 == Poke(m1, CommandOffset, str)
            m3 == Poke(m2, LengthOffset, LE32(ToU32(len)))
            m4 == Poke(m3, MagicOffset, BITCOIN_MAGIC)
            h  == double_sha256(SubSeq(m4, HeaderSize + 1, Len(m4)), len, raw)
            m5 == Poke(m4, ChecksumOffset, SubSeq(h.res, 1, ChecksumSize))
        IN  IF h.ok
            THEN [status |-> "returned", mem |-> m5,
                  spill |-> PastEnd(m, CommandOffset, str)]
            ELSE [status |-> "assert_failed", mem |-> m4,
                  spill |-> PastEnd(m, CommandOffset, str)]

IdleF ==
    /\ command = <<>> /\ mem = <<>> /\ mem0 = <<>> /\ datalen = Zero64
    /\ spill = <<>> /\ fstatus = "none"

\* Command names: "ping", and runs of 'p' of every length up to MaxCommand.
Commands == { <<112, 105, 110, 103>> } \cup { [i \in 1..n |-> 112] : n \in 0..MaxCommand }

\* Payloads: short ones of every length, two longer ones, and ones of more
\* than 2^32 bytes (a concrete start, long enough to take the longest
\* command's overrun, followed by 2^32 zero bytes).
Payloads ==
    { [i \in 1..n |-> 65] : n \in (0..MaxPayload) \cup {64, 100} }
    \cup { [i \in 1..n |-> 65] \o <<ZeroRun>> : n \in (MaxCommand - 19)..(MaxCommand - 17) }

InitF ==
    /\ command \in Commands
    /\ \E g \in {0, 170}, p \in Payloads :
          /\ mem = [i \in 1..HeaderSize |-> g] \o p
          /\ datalen = SizeOf(p)
    /\ mem0 = mem /\ spill = <<>> /\ fstatus = "none"

PrepareMessage ==
    /\ fstatus = "none"
    /\ \E fortified \in BOOLEAN :
          LET r == prepare_message(command, mem, datalen, fortified, SHA256_defined)
          IN  mem' = r.mem /\ spill' = r.spill /\ fstatus' = r.status
    /\ mem0' = mem
    /\ UNCHANGED <<command, datalen>>
    /\ UNCHANGED <<varsV, varsIO, varsH>>

NextF == PrepareMessage

(***************************************************************************)
(* Specifications: one per component, the other components at rest.       *)
(***************************************************************************)
InitVarint == InitV /\ IdleIO /\ IdleH /\ IdleF /\ SHA256_defined = FALSE
SpecVarint == InitVarint /\ [][NextV]_vars

InitTransfer == IdleV /\ InitIO /\ IdleH /\ IdleF /\ SHA256_defined = FALSE
SpecIO == InitTransfer /\ [][NextIO]_vars

InitHash == IdleV /\ IdleIO /\ InitH /\ IdleF
SpecHash == InitHash /\ [][NextH]_vars

InitFrame == IdleV /\ IdleIO /\ IdleH /\ InitF /\ SHA256_defined \in BOOLEAN
SpecFrame == InitFrame /\ [][NextF]_vars

(***************************************************************************)
(* Properties of the varint codec (SpecVarint).                            *)
(***************************************************************************)
\* A read_varint call has returned or thrown; it0 is the cursor it was given.
Decoded == vstatus \in {"ok", "read_exception", "abort"}

\* Bytes the prefix byte demands after itself.
Demand(prefix) ==
    IF prefix < 253 THEN 0 ELSE IF prefix = 253 THEN 2 ELSE IF prefix = 254 THEN 4 ELSE 8

\* The prefix at it0 and all the bytes it demands lie before the end bound.
EnoughBytes == it0 < Len(buf) /\ Len(buf) - it0 - 1 >= Demand(buf[it0 + 1])

\* The unsigned little-endian value of the n bytes at offsets off .. off+n-1.
LittleEndian(b, off, n) ==
    LET byte(k) == IF k < n THEN b[off + k + 1] ELSE 0
    IN  << byte(0) + 256 * byte(1), byte(2) + 256 * byte(3),
           byte(4) + 256 * byte(5), byte(6) + 256 * byte(7) >>

\* The narrowest form of a 64-bit value.
NarrowestForm(v) ==
    IF LessThan0xfd(v) THEN <<v[1]>>
    ELSE IF AtMost0xffff(v) THEN <<253>> \o LE16(v)
    ELSE IF AtMost0xffffffff(v) THEN <<254>> \o LE32(v)
    ELSE <<255>> \o LE64(v)

\* C1: round trip.  For every unsigned 64-bit value v, read_varint applied
\* to the bytes varint(v) produced, from their first byte, returns exactly v
\* and leaves the cursor at the end of those bytes.
C1_RoundTrip ==
    (Decoded /\ fresh) => (vstatus = "ok" /\ vret = vin /\ it = Len(buf))

\* What does hold of the round trip: values below 2^31.
RoundTripBelow2Pow31 ==
    (Decoded /\ fresh /\ vin[4] = 0 /\ vin[3] = 0 /\ vin[2] < 32768)
        => (vstatus = "ok" /\ vret = vin /\ it = Len(buf))

\* C2: truncation is atomic.  When fewer bytes remain between the cursor and
\* the end bound than the prefix byte demands (none at all, or prefix
\* 0xfd/0xfe/0xff with fewer than 2/4/8 bytes after it), read_varint fails
\* with read_exception and the cursor is where it was before the call.
C2_TruncatedLeavesCursor ==
    (Decoded /\ ~EnoughBytes) => (vstatus = "read_exception" /\ it = it0)

\* What does hold on truncated input: no value is returned, and the cursor
\* has moved by at most the prefix byte.
TruncatedNeverReturns ==
    (Decoded /\ ~EnoughBytes) => (vstatus # "ok" /\ it \in {it0, it0 + 1})

\* C3: decoding.  With enough bytes remaining, read_varint returns the
\* prefix byte itself when it is below 0xfd, otherwise the unsigned
\* little-endian value of the following 2, 4 or 8 bytes, whatever those
\* bytes are, and advances the cursor by exactly 1, 3, 5 or 9.
C3_DecodeLittleEndian ==
    (Decoded /\ EnoughBytes) =>
        LET prefix == buf[it0 + 1]
        IN  /\ vstatus = "ok"
            /\ it = it0 + 1 + Demand(prefix)
            /\ vret = IF prefix < 253 THEN U64OfInt(prefix)
                      ELSE LittleEndian(buf, it0 + 1, Demand(prefix))

\* What does hold of decoding: everything but a 0xfe form whose last byte
\* has its top bit set.
DecodeExceptSignBit ==
    (Decoded /\ EnoughBytes /\ ~(buf[it0 + 1] = 254 /\ buf[it0 + 5] >= 128)) =>
        LET prefix == buf[it0 + 1]
        IN  /\ vstatus = "ok"
            /\ it = it0 + 1 + Demand(prefix)
            /\ vret = IF prefix < 253 THEN U64OfInt(prefix)
                      ELSE LittleEndian(buf, it0 + 1, Demand(prefix))

\* C4: encoding.  For every unsigned 64-bit value, varint produces the
\* narrowest form: the value itself in one byte below 0xfd; 0xfd and a
\* little-endian u16 up to 0xffff; 0xfe and a little-endian u32 up to
\* 0xffffffff; 0xff and a little-endian u64 (9 bytes) above that.
C4_NarrowestEncoding ==
    vstatus = "encoded" => buf = NarrowestForm(vin)

\* What does hold of encoding: the narrowest form of the value modulo 2^32.
EncodesLow32Bits ==
    vstatus = "encoded" => buf = NarrowestForm(ToU32(vin))

(***************************************************************************)
(* Properties of read_all and send_all (SpecIO).                           *)
(***************************************************************************)
RECURSIVE SumSeq(_)
SumSeq(q) == IF q = <<>> THEN 0 ELSE Head(q) + SumSeq(Tail(q))

\* C10: for every nbyte > 0 and every sequence of results of the underlying
\* read/send calls, read_all and send_all finish after at most nbyte such
\* calls and return either exactly nbyte (the positive results sum to nbyte)
\* or the non-positive result of the first call that returned <= 0; they
\* never return a positive count smaller than nbyte.
C10_AllOrError ==
    (fn # "none" /\ nbyte > 0) =>
        /\ Len(results) <= nbyte
        /\ (pc = "loop" /\ Len(results) = nbyte) => total = nbyte
        /\ pc # "done" => ENABLED NextIO
        /\ pc = "done" =>
              /\ IF \E i \in 1..Len(results) : results[i] <= 0
                    THEN ioret = results[CHOOSE i \in 1..Len(results) : results[i] <= 0]
                    ELSE SumSeq(results) = nbyte /\ ioret = nbyte
              /\ ioret > 0 => ioret = nbyte

\* An error arrives after some bytes were transferred; the call has returned.
C10_Witness ==
    /\ pc = "done" /\ nbyte >= 3 /\ Len(results) >= 2 /\ total > 0
    /\ results[Len(results)] <= 0 /\ ioret <= 0

(***************************************************************************)
(* Properties of double-SHA256 (SpecHash).                                 *)
(***************************************************************************)
\* C8: fast-path equivalence.  For every pair of 32-byte inputs (a, b),
\* double_sha256_two_32_inputs(a, b) yields the digest double_sha256 yields
\* on the 64 bytes a || b; in the raw-compression build both hand SHA256 the
\* same buffers: a || b, 0x80, 55 zero bytes and the big-endian bit length
\* 512, then the 32-byte intermediate, 0x80, 23 zero bytes and bit length 256.
C8_FastPathEquivalence ==
    (hkind = "two32" /\ hstatus = "done") =>
        LET cat == input \o input2
            g   == double_sha256(cat, SizeOf(cat), SHA256_defined)
        IN  /\ Len(res) = 32
            /\ res = g.res
            /\ SHA256_defined =>
                  /\ fed = g.fed
                  /\ fed[1] = cat \o <<128>> \o Zeros(55) \o <<0, 0, 0, 0, 0, 0, 2, 0>>
                  /\ fed[2] = sha256_done(SHA256(fed[1], sha256_init))
                                \o <<128>> \o Zeros(23) \o <<0, 0, 0, 0, 0, 0, 1, 0>>

\* The fast path has run in the raw-compression build on two different digests.
C8_Witness ==
    /\ hkind = "two32" /\ hstatus = "done" /\ SHA256_defined
    /\ input # input2 /\ Len(fed) = 2

\* C9: first-pass padding of the general raw path.  For every input length
\* n (0 included) the buffer handed to SHA256 is the input, then 0x80, then
\* zero bytes up to a length congruent to 56 mod 64, then the 8-byte
\* big-endian value 8n; its length is the smallest multiple of 64 that is
\* >= n + 9, so the assert holds and the overhead is between 9 and 72 bytes.
C9_StandardPadding ==
    (hkind = "general" /\ hstatus # "none" /\ SHA256_defined) =>
        /\ hstatus = "done"
        /\ LET n == Len(input)
               d == fed[1]
               L == Len(fed[1])
           IN  /\ L % 64 = 0 /\ L >= n + 9 /\ L - 64 < n + 9
               /\ L - n >= 9 /\ L - n <= 72
               /\ SubSeq(d, 1, n) = input
               /\ d[n + 1] = 128
               /\ \A i \in (n + 2)..(L - 8) : d[i] = 0
               /\ (L - 8) % 64 = 56
               /\ SubSeq(d, L - 7, L) =
                     << 0, 0, 0, 0, ((8 * n) \div 16777216) % 256,
                        ((8 * n) \div 65536) % 256, ((8 * n) \div 256) % 256, (8 * n) % 256 >>

\* An input whose length is 56 mod 64 and longer than a block: the padding
\* takes a whole extra block (72 bytes of overhead).
C9_Witness ==
    /\ hkind = "general" /\ hstatus = "done" /\ SHA256_defined
    /\ Len(input) > 64 /\ Len(input) % 64 = 56 /\ Len(fed[1]) = Len(input) + 72

(***************************************************************************)
(* Properties of prepare_message (SpecFrame).                              *)
(***************************************************************************)
Called == fstatus # "none"
Field(m, off, n) == SubSeq(m, off + 1, off + n)
PayloadOf(m) == SubSeq(m, HeaderSize + 1, Len(m))

\* SHA-256 applied twice, independent of the build.
DoubleSha256Of(p) == CSHA256(CSHA256(p))

\* The header the framer is to produce for command and the payload given.
FramedCorrectly ==
    /\ fstatus = "returned"
    /\ spill = <<>>
    /\ Field(mem, MagicOffset, 4) = BITCOIN_MAGIC
    /\ Field(mem, CommandOffset, CommandSize) = command \o Zeros(CommandSize - Len(command))
    /\ Field(mem, LengthOffset, 4) = LE32(datalen)
    /\ Field(mem, ChecksumOffset, ChecksumSize) = SubSeq(DoubleSha256Of(PayloadOf(mem0)), 1, 4)
    /\ PayloadOf(mem) = PayloadOf(mem0)

\* C5: a command name longer than 12 bytes makes prepare_message fail with
\* CommandTooLong: the caller is told, and no byte outside the 12-byte
\* command field (length, checksum, payload, or beyond) is overwritten.
C5_CommandTooLong ==
    (Called /\ Len(command) > CommandSize) =>
        /\ fstatus = "CommandTooLong"
        /\ spill = <<>>
        /\ \A i \in 1..Len(mem) :
              (i - 1 < CommandOffset \/ i - 1 >= CommandOffset + CommandSize) => mem[i] = mem0[i]

\* C6: for every command name of 0..12 bytes and every payload shorter than
\* 2^32 bytes, after prepare_message the header holds the magic, the name
\* zero-padded to 12 bytes whatever the buffer held before, the length as a
\* little-endian u32 and the first 4 bytes of the payload's double SHA-256,
\* and the payload is unchanged.
C6_HeaderFields ==
    (Called /\ Len(command) <= CommandSize /\ AtMost0xffffffff(datalen)) => FramedCorrectly

\* What does hold of framing: names of up to 11 bytes, and 12-byte names
\* whenever the call returns.
FramedUpTo11 ==
    (Called /\ Len(command) < CommandSize /\ AtMost0xffffffff(datalen)) => FramedCorrectly
FramedWhenReturned ==
    (fstatus = "returned" /\ Len(command) <= CommandSize /\ AtMost0xffffffff(datalen))
        => FramedCorrectly

\* C7: a payload longer than 2^32 - 1 bytes makes prepare_message fail with
\* PayloadTooLarge; the length field is never set to the length modulo 2^32.
C7_PayloadTooLarge ==
    (Called /\ ~AtMost0xffffffff(datalen)) =>
        /\ fstatus = "PayloadTooLarge"
        /\ Field(mem, LengthOffset, 4) # LE32(ToU32(datalen))

====
